---- MODULE Spec2Model ----
(***************************************************************************)
(* ImageShuffler (src/image_shuffler.py): a Tk GUI that moves image files  *)
(* from registered source folders into one destination folder.             *)
(*                                                                         *)
(* Strings that the code takes apart (file names, the text of an amount    *)
(* entry) are sequences of one-character strings; folder paths, which the  *)
(* code only compares and joins, are plain strings.  A file path is the    *)
(* record [dir, name], i.e. os.path.join(dir, name).                       *)
(***************************************************************************)
EXTENDS Integers, Sequences, FiniteSets, TLC

VARIABLES
    fs,           \* the file system: folder -> set of file names in it
    rows,         \* ImageShufflerGUI.rows: sequence of SourceRow
    dest_dir,     \* ImageShufflerGUI.dest_dir, "" standing for None
    order_var,    \* ImageShufflerGUI.order_var
    log,          \* lines appended to log_text since the last execute began
    pc,           \* position of the execute callback: "idle", "row", "file"
    idx,          \* execute: index of the row the for loop is at
    images,       \* move_from_row: the local images (after the shuffle)
    amount,       \* move_from_row: the local amount
    selected,     \* move_from_row: the part of selected not yet iterated
    moved,        \* move_from_row: the local moved
    moved_files,  \* files of the current row that shutil.move has moved
    dest_before,  \* content of the destination when the run began
    ops           \* number of callbacks and external changes so far

vars == <<fs, rows, dest_dir, order_var, log, pc, idx, images, amount,
          selected, moved, moved_files, dest_before, ops>>

-----------------------------------------------------------------------------
(* Bounds of the model *)

\* callbacks and external changes in one session of the program
MaxOps == 5

-----------------------------------------------------------------------------
(* Characters and strings *)

\* The characters used, in code point order ('.' < digits < upper < '_' < lower).
Alphabet ==
    <<"-", ".", "0", "1", "2", "3", "4", "5", "6", "7", "8", "9",
      "G", "J", "N", "P", "Q", "_",
      "b", "e", "g", "h", "j", "n", "p", "q", "r", "t", "w", "x">>

Ord(c) == CHOOSE i \in 1..Len(Alphabet) : Alphabet[i] = c

Digits == <<"0", "1", "2", "3", "4", "5", "6", "7", "8", "9">>

IsDigit(c) == \E i \in 1..10 : Digits[i] = c

DigitVal(c) == (CHOOSE i \in 1..10 : Digits[i] = c) - 1

\* str.lower() on one character
lower(c) ==
    CASE c = "G" -> "g" [] c = "J" -> "j" [] c = "N" -> "n"
      [] c = "P" -> "p" [] c = "Q" -> "q" [] OTHER -> c

LowerStr(s) == [i \in 1..Len(s) |-> lower(s[i])]

\* s < t for Python strings: lexicographic by code point
RECURSIVE StrLess(_, _)
StrLess(s, t) ==
    IF t = <<>> THEN FALSE
    ELSE IF s = <<>> THEN TRUE
    ELSE IF Head(s) # Head(t) THEN Ord(Head(s)) < Ord(Head(t))
    ELSE StrLess(Tail(s), Tail(t))

\* str(n) for n >= 0
RECURSIVE str(_)
str(n) == IF n < 10 THEN <<Digits[n + 1]>>
          ELSE str(n \div 10) \o <<Digits[(n % 10) + 1]>>

\* value of a non-empty string of digits
RECURSIVE DigitsVal(_)
DigitsVal(s) == IF s = <<>> THEN 0
                ELSE 10 * DigitsVal(SubSeq(s, 1, Len(s) - 1)) + DigitVal(s[Len(s)])

AllDigits(s) == \A i \in 1..Len(s) : IsDigit(s[i])

Min(a, b) == IF a < b THEN a ELSE b

Max(a, b) == IF a > b THEN a ELSE b

-----------------------------------------------------------------------------
(* File names and image listing *)

IMAGE_EXTS == { <<".", "j", "p", "g">>, <<".", "j", "p", "e", "g">>,
                <<".", "p", "n", "g">>, <<".", "w", "e", "b", "p">> }

\* os.path.splitext on a base name: [root, ext]; the extension starts at the
\* last dot, unless only dots precede it
splitext(name) ==
    LET dots == {i \in 1..Len(name) : name[i] = "."}
    IN  IF dots = {} THEN [root |-> name, ext |-> <<>>]
        ELSE LET d == CHOOSE i \in dots : \A j \in dots : j <= i
             IN  IF \E k \in 1..(d - 1) : name[k] # "."
                 THEN [root |-> SubSeq(name, 1, d - 1),
                       ext  |-> SubSeq(name, d, Len(name))]
                 ELSE [root |-> name, ext |-> <<>>]

is_image_file(name) == LowerStr(splitext(name).ext) \in IMAGE_EXTS

\* glob(os.path.join(directory, '*')): the entries whose name does not start
\* with a dot
GlobStar(directory) == {n \in fs[directory] : n # <<>> /\ n[1] # "."}

\* list.sort() of a set of names of one folder (the paths share the prefix)
RECURSIVE SortNames(_)
SortNames(S) ==
    IF S = {} THEN <<>>
    ELSE LET m == CHOOSE x \in S : \A y \in S : y = x \/ StrLess(x, y)
         IN  <<m>> \o SortNames(S \ {m})

\* list_images with the sort reversed
list_images_reversed(directory) ==
    LET files == SortNames({n \in GlobStar(directory) : is_image_file(n)})
    IN  [i \in 1..Len(files) |->
            [dir |-> directory, name |-> files[Len(files) + 1 - i]]]

list_images(directory) ==
    LET files == SortNames({n \in GlobStar(directory) : is_image_file(n)})
    IN  [i \in 1..Len(files) |-> [dir |-> directory, name |-> files[i]]]

-----------------------------------------------------------------------------
(* SourceRow *)

\* IntVar.get() on the text of the entry: Tcl's getint, then int(getdouble),
\* and TclError when the text is no number
IntVarGet(text) ==
    LET neg  == text # <<>> /\ text[1] = "-"
        body == IF neg THEN Tail(text) ELSE text
        dots == {i \in 1..Len(body) : body[i] = "."}
        sign == IF neg THEN -1 ELSE 1
    IN  IF body # <<>> /\ AllDigits(body)
        THEN [exc |-> "none", value |-> sign * DigitsVal(body)]
        ELSE IF Cardinality(dots) = 1 /\ Len(body) > 1
                /\ \A i \in 1..Len(body) : IsDigit(body[i]) \/ body[i] = "."
        THEN LET d == CHOOSE i \in dots : TRUE
             IN  [exc |-> "none",
                  value |-> sign * DigitsVal(SubSeq(body, 1, d - 1))]
        ELSE [exc |-> "TclError", value |-> 0]

SourceRow(path) ==
    LET available == Len(list_images(path))
    IN  [path |-> path, available |-> available, amount_text |-> str(available)]

\* get_amount without the upper clamp
get_amount_unclamped(row) ==
    LET got == IntVarGet(row.amount_text)
    IN  IF got.exc # "none"
        THEN [exc |-> got.exc, value |-> 0]
        ELSE [exc |-> "none", value |-> Max(0, got.value)]

\* SourceRow.get_amount: [exc, value]; only ValueError is handled
get_amount(row) ==
    LET got == IntVarGet(row.amount_text)
    IN  IF got.exc = "ValueError"
        THEN [exc |-> "none", value |-> Max(0, Min(0, row.available))]
        ELSE IF got.exc # "none"
        THEN [exc |-> got.exc, value |-> 0]
        ELSE [exc |-> "none", value |-> Max(0, Min(got.value, row.available))]

-----------------------------------------------------------------------------
(* Inputs *)

Dirs == {"/a", "/b", "/d"}

\* what filedialog.askdirectory() returns: "" when the dialog is cancelled
DialogPaths == Dirs \cup {""}

\* os.path.abspath on a path returned by the dialog, which is absolute and
\* normalised already
abspath(path) == path

\* texts the user types into an amount entry
AmountTexts == { <<"x">>, <<"0">>, <<"1">> }

\* further texts an amount entry can hold
MoreTexts == { <<>>, <<"9">>, <<"-", "1">>, <<"2", ".", "5">>, <<"-", "2", ".", "5">>,
               <<"1", "0">>, <<".">>, <<"-">>, <<"1", "x">> }

Jpg(stem) == stem \o <<".", "j", "p", "g">>

InitFs ==
    [d \in Dirs |->
        CASE d = "/a" -> { Jpg(<<"p">>), <<"Q", ".", "P", "N", "G">>,
                           <<"n", ".", "t", "x", "t">> }
          [] d = "/b" -> { Jpg(<<"p">>), Jpg(<<".", "h">>) }
          [] d = "/d" -> { Jpg(<<"p">>), Jpg(<<"p", "_", "1">>) }]

\* the folder other programs work in, and the file they may drop into it
ExternalDirs == {"/a"}

NewNames == { Jpg(<<"r">>) }

-----------------------------------------------------------------------------
(* Log lines *)

NoDestLine == [kind |-> "no_dest"]

SkipLine(path) == [kind |-> "skip", path |-> path]

FailLine(img) == [kind |-> "fail", img |-> img]

MovedLine(path, m, a) == [kind |-> "moved", path |-> path, moved |-> m, amount |-> a]

DoneLine == [kind |-> "done"]

-----------------------------------------------------------------------------
(* ImageShufflerGUI *)

\* update_total on the rows rs: the total shown, or the exception that a
\* get_amount raises.  The label's text is not part of the model.
update_total(rs) ==
    IF \E i \in 1..Len(rs) : get_amount(rs[i]).exc # "none"
    THEN [exc |-> "TclError"]
    ELSE [exc |-> "none"]

Init ==
    /\ fs = InitFs
    /\ rows = <<>>
    /\ dest_dir = ""
    /\ order_var = "name"
    /\ log = <<>>
    /\ pc = "idle"
    /\ idx = 0
    /\ images = <<>>
    /\ amount = 0
    /\ selected = <<>>
    /\ moved = 0
    /\ moved_files = {}
    /\ dest_before = {}
    /\ ops = 0

RunVars == <<pc, idx, images, amount, selected, moved, moved_files, dest_before>>

\* one more callback or external change
CountOp ==
    /\ ops < MaxOps
    /\ ops' = ops + 1

\* add_folder.  Its closing update_total writes the label only, and an
\* exception raised there leaves the appended row in place.
add_folder ==
    /\ pc = "idle"
    /\ CountOp
    /\ \E path \in DialogPaths :
        IF \/ path = ""
           \/ \E i \in 1..Len(rows) : rows[i].path = path
           \/ (dest_dir # "" /\ abspath(path) = abspath(dest_dir))
        THEN UNCHANGED rows
        ELSE rows' = Append(rows, SourceRow(path))
    /\ UNCHANGED <<fs, dest_dir, order_var, log>>
    /\ UNCHANGED RunVars

RemoveAt(s, i) == SubSeq(s, 1, i - 1) \o SubSeq(s, i + 1, Len(s))

\* the row's remove button: SourceRow.remove, then remove_row (whose
\* update_total writes the label only)
remove_row ==
    /\ pc = "idle"
    /\ CountOp
    /\ \E i \in 1..Len(rows) : rows' = RemoveAt(rows, i)
    /\ UNCHANGED <<fs, dest_dir, order_var, log>>
    /\ UNCHANGED RunVars

select_dest ==
    /\ pc = "idle"
    /\ CountOp
    /\ \E path \in DialogPaths :
        dest_dir' = IF path # "" THEN path ELSE dest_dir
    /\ UNCHANGED <<fs, rows, order_var, log>>
    /\ UNCHANGED RunVars

\* the two radio buttons bound to order_var
set_order ==
    /\ pc = "idle"
    /\ CountOp
    /\ \E v \in {"name", "random"} : order_var' = v
    /\ UNCHANGED <<fs, rows, dest_dir, log>>
    /\ UNCHANGED RunVars

\* the user types into a row's amount entry, bound to amount_var
edit_amount ==
    /\ pc = "idle"
    /\ CountOp
    /\ \E i \in 1..Len(rows), text \in AmountTexts :
        rows' = [rows EXCEPT ![i].amount_text = text]
    /\ UNCHANGED <<fs, dest_dir, order_var, log>>
    /\ UNCHANGED RunVars

\* random.shuffle(images) leaves any permutation of the list
Shuffles(n) == {f \in [1..n -> 1..n] : \A i, j \in 1..n : f[i] = f[j] => i = j}

\* images[:n]
Take(s, n) == SubSeq(s, 1, Min(n, Len(s)))

\* the while loop of move_from_row: the first name base_i+ext, i = i, i+1, ...,
\* that no file of the destination has
RECURSIVE NextFree(_, _, _, _)
NextFree(base, ext, i, taken) ==
    LET dest_name == base \o <<"_">> \o str(i) \o ext
    IN  IF dest_name \in taken THEN NextFree(base, ext, i + 1, taken) ELSE dest_name

\* the name under which move_from_row moves img into the destination
DestName(img, taken) ==
    LET dest_name == img.name
        se == splitext(dest_name)
    IN  IF dest_name \in taken THEN NextFree(se.root, se.ext, 1, taken) ELSE dest_name

\* shutil.move(img, dest_path) when it succeeds
shutil_move(files, img, dest, dest_name) ==
    LET gone == [files EXCEPT ![img.dir] = @ \ {img.name}]
    IN  [gone EXCEPT ![dest] = @ \cup {dest_name}]

ResetRun ==
    /\ pc' = "idle"
    /\ idx' = 0
    /\ images' = <<>>
    /\ amount' = 0
    /\ selected' = <<>>
    /\ moved' = 0
    /\ moved_files' = {}
    /\ dest_before' = {}

\* execute without the test of dest_dir
execute_unchecked ==
    /\ pc = "idle"
    /\ CountOp
    /\ log' = <<>>
    /\ pc' = "row"
    /\ idx' = 1
    /\ dest_before' = IF dest_dir \in Dirs THEN fs[dest_dir] ELSE {}
    /\ UNCHANGED <<images, amount, selected, moved, moved_files>>
    /\ UNCHANGED <<fs, rows, dest_dir, order_var>>

\* execute, up to the for loop
execute ==
    /\ pc = "idle"
    /\ CountOp
    /\ IF dest_dir = ""
       THEN /\ log' = <<NoDestLine>>
            /\ UNCHANGED RunVars
       ELSE /\ log' = <<>>
            /\ pc' = "row"
            /\ idx' = 1
            /\ dest_before' = fs[dest_dir]
            /\ UNCHANGED <<images, amount, selected, moved, moved_files>>
    /\ UNCHANGED <<fs, rows, dest_dir, order_var>>

\* move_from_row without the test of amount == 0
move_from_row_no_skip ==
    /\ pc = "row"
    /\ idx <= Len(rows)
    /\ LET row == rows[idx]
           listed == list_images(row.path)
           got == get_amount(row)
       IN  IF got.exc # "none"
           THEN /\ ResetRun
                /\ UNCHANGED log
           ELSE /\ \E p \in Shuffles(Len(listed)) :
                     /\ order_var # "random" => \A i \in 1..Len(listed) : p[i] = i
                     /\ images' = [i \in 1..Len(listed) |-> listed[p[i]]]
                /\ amount' = got.value
                /\ selected' = Take(images', got.value)
                /\ moved' = 0
                /\ moved_files' = {}
                /\ pc' = "file"
                /\ UNCHANGED <<idx, log, dest_before>>
    /\ UNCHANGED <<fs, rows, dest_dir, order_var, ops>>

\* move_from_row(rows[idx]) up to the loop over selected
move_from_row ==
    /\ pc = "row"
    /\ idx <= Len(rows)
    /\ LET row == rows[idx]
           listed == list_images(row.path)
           got == get_amount(row)
       IN  IF got.exc # "none"
           THEN \* the exception leaves move_from_row and execute
                /\ ResetRun
                /\ UNCHANGED log
           ELSE IF got.value = 0
           THEN /\ log' = Append(log, SkipLine(row.path))
                /\ idx' = idx + 1
                /\ UNCHANGED <<pc, images, amount, selected, moved, moved_files,
                               dest_before>>
           ELSE /\ \E p \in Shuffles(Len(listed)) :
                     /\ order_var # "random" => \A i \in 1..Len(listed) : p[i] = i
                     /\ images' = [i \in 1..Len(listed) |-> listed[p[i]]]
                /\ amount' = got.value
                /\ selected' = Take(images', got.value)
                /\ moved' = 0
                /\ moved_files' = {}
                /\ pc' = "file"
                /\ UNCHANGED <<idx, log, dest_before>>
    /\ UNCHANGED <<fs, rows, dest_dir, order_var, ops>>

\* one iteration of the loop over selected; shutil.move moves the file or raises
move_file ==
    /\ pc = "file"
    /\ selected # <<>>
    /\ LET img == Head(selected)
           dest_name == DestName(img, fs[dest_dir])
       IN  \/ /\ fs' = shutil_move(fs, img, dest_dir, dest_name)
              /\ moved' = moved + 1
              /\ moved_files' = moved_files \cup {img}
              /\ UNCHANGED log
           \/ /\ log' = Append(log, FailLine(img))
              /\ UNCHANGED <<fs, moved, moved_files>>
    /\ selected' = Tail(selected)
    /\ UNCHANGED <<rows, dest_dir, order_var, pc, idx, images, amount,
                   dest_before, ops>>

\* the log line that ends move_from_row, and the next turn of execute's loop
end_row ==
    /\ pc = "file"
    /\ selected = <<>>
    /\ log' = Append(log, MovedLine(rows[idx].path, moved, amount))
    /\ pc' = "row"
    /\ idx' = idx + 1
    /\ UNCHANGED <<fs, rows, dest_dir, order_var, images, amount, selected,
                   moved, moved_files, dest_before, ops>>

\* execute after the for loop: update_total and the completion line
finish ==
    /\ pc = "row"
    /\ idx > Len(rows)
    /\ log' = IF update_total(rows).exc = "none" THEN Append(log, DoneLine) ELSE log
    /\ ResetRun
    /\ UNCHANGED <<fs, rows, dest_dir, order_var, ops>>

\* another program deletes an image file from a folder, or drops one into it,
\* while no callback runs
external_remove ==
    /\ pc = "idle"
    /\ CountOp
    /\ \E d \in ExternalDirs : \E n \in fs[d] :
        /\ is_image_file(n)
        /\ fs' = [fs EXCEPT ![d] = @ \ {n}]
    /\ UNCHANGED <<rows, dest_dir, order_var, log>>
    /\ UNCHANGED RunVars

external_add ==
    /\ pc = "idle"
    /\ CountOp
    /\ \E d \in ExternalDirs : \E n \in NewNames \ fs[d] :
        fs' = [fs EXCEPT ![d] = @ \cup {n}]
    /\ UNCHANGED <<rows, dest_dir, order_var, log>>
    /\ UNCHANGED RunVars

Next ==
    \/ add_folder
    \/ remove_row
    \/ select_dest
    \/ set_order
    \/ edit_amount
    \/ execute
    \/ move_from_row
    \/ move_file
    \/ end_row
    \/ finish
    \/ external_remove
    \/ external_add

Spec == Init /\ [][Next]_vars

-----------------------------------------------------------------------------
(* Properties *)

Range(s) == {s[i] : i \in 1..Len(s)}

\* the fail lines of the log that name a file of folder path
FailedIn(path) == {k \in 1..Len(log) : log[k].kind = "fail" /\ log[k].img.dir = path}

\* the text is an integer literal: an optional sign and digits
IsIntegerText(text) ==
    LET body == IF text # <<>> /\ text[1] = "-" THEN Tail(text) ELSE text
    IN  body # <<>> /\ AllDigits(body)

\* the destination is none of the registered source folders
DestApart == \A i \in 1..Len(rows) : rows[i].path # dest_dir

\* every text the model knows for an amount entry
AllTexts == AmountTexts \cup MoreTexts \cup {str(n) : n \in 0..12}

\* C1: the destination folder is never the path of a registered source row.
C1_DestNeverSource ==
    \A i \in 1..Len(rows) :
        dest_dir = "" \/ abspath(rows[i].path) # abspath(dest_dir)

\* C2: execute with no destination selected logs the 'select a destination'
\* line and returns: the log holds that line alone, no file is moved and no
\* run begins; a run in progress always has a destination.
C2_NoDestAborts ==
    [][ /\ (execute /\ dest_dir = "")
            => (log' = <<NoDestLine>> /\ fs' = fs /\ pc' = "idle")
        /\ (pc' # "idle" => dest_dir' # "") ]_vars

\* C2 witness: execute has aborted for want of a destination while a
\* registered row asks for files.
C2_Witness ==
    /\ dest_dir = ""
    /\ log = <<NoDestLine>>
    /\ \E i \in 1..Len(rows) : get_amount(rows[i]).value > 0

\* C3: a move never replaces a file of the destination: when the base name
\* is taken the target is base_N+ext for the smallest N >= 1 that is free,
\* and every file the destination held before the run is still there.
C3_NoOverwrite ==
    [][ (pc = "file" /\ selected # <<>>) =>
          LET img == Head(selected)
              taken == fs[dest_dir]
              se == splitext(img.name)
              Target(N) == se.root \o <<"_">> \o str(N) \o se.ext
          IN  /\ dest_before \subseteq fs'[dest_dir]
              /\ fs' # fs =>
                   \E n \in fs'[dest_dir] \ taken :
                      IF img.name \notin taken THEN n = img.name
                      ELSE \E N \in 1..(Cardinality(taken) + 1) :
                              /\ n = Target(N)
                              /\ \A M \in 1..(N - 1) : Target(M) \in taken ]_vars

\* C4: after a move has failed the run still goes on to its completion line
\* (stated for a destination that is no source folder, where it fails as well).
C4_FailureDoesNotStopRun ==
    (DestApart /\ pc = "idle" /\ \E k \in 1..Len(log) : log[k].kind = "fail")
        => log[Len(log)] = DoneLine

\* C5: whatever text the amount entry of a registered row holds, the amount
\* that get_amount returns is an integer between 0 and the row's available
\* count; so is the amount a run works with.
C5_AmountInRange ==
    /\ \A i \in 1..Len(rows) :
         \A text \in AllTexts \cup {rows[i].amount_text} :
            LET got == get_amount([rows[i] EXCEPT !.amount_text = text])
            IN  got.exc = "none" => got.value \in 0..rows[i].available
    /\ pc = "file" => amount \in 1..rows[idx].available

\* C5 witness: a row with images whose entry would be clamped from above (9)
\* and from below (-1), and a run working with the row's amount.
C5_Witness ==
    /\ pc = "file"
    /\ rows[idx].available >= 2
    /\ amount = rows[idx].available
    /\ get_amount([rows[idx] EXCEPT !.amount_text = <<"9">>]).value = rows[idx].available
    /\ get_amount([rows[idx] EXCEPT !.amount_text = <<"-", "1">>]).value = 0

\* C6: in mode 'name' the files selected for a row are the first amount
\* entries (all of them when there are fewer) of the folder's image files in
\* ascending order, as the folder is when the row is processed: the j-th
\* selected file has exactly j-1 image files of the folder before it.
C6_NameOrderSelection ==
    [][ (pc = "row" /\ pc' = "file" /\ order_var = "name") =>
          LET dir == rows[idx].path
              imgs == {n \in fs[dir] : n[1] # "." /\ is_image_file(n)}
              k == get_amount(rows[idx]).value
          IN  /\ Len(selected') = Min(k, Cardinality(imgs))
              /\ \A j \in 1..Len(selected') :
                    /\ selected'[j].dir = dir
                    /\ selected'[j].name \in imgs
                    /\ Cardinality({m \in imgs : StrLess(m, selected'[j].name)}) = j - 1
      ]_vars

\* C6 witness: in mode 'name', folder /a lists Q.PNG, p.jpg, r.jpg and the
\* first two are selected.
C6_Witness ==
    /\ pc = "file"
    /\ order_var = "name"
    /\ Len(images) = 3
    /\ selected = << [dir |-> "/a", name |-> <<"Q", ".", "P", "N", "G">>],
                     [dir |-> "/a", name |-> Jpg(<<"p">>)] >>

\* C7: in mode 'random', when a row's amount equals its available count and
\* no move fails, the files moved are all the image files the folder held
\* (stated for a destination that is no source folder, where it fails as well).
C7_RandomMovesAll ==
    ( /\ DestApart
      /\ pc = "file"
      /\ selected = <<>>
      /\ order_var = "random"
      /\ amount = rows[idx].available
      /\ FailedIn(rows[idx].path) = {} )
        => moved_files = Range(images)

\* C8: a row whose amount is 0 leaves every folder as it is, is logged as
\* skipped, and the run goes on with the next row.
C8_ZeroAmountSkips ==
    [][ ( /\ pc = "row"
          /\ idx <= Len(rows)
          /\ get_amount(rows[idx]).exc = "none"
          /\ get_amount(rows[idx]).value = 0 )
        => ( /\ fs' = fs
             /\ log' = Append(log, SkipLine(rows[idx].path))
             /\ pc' = "row"
             /\ idx' = idx + 1 ) ]_vars

\* C8 witness: the first row was skipped and the second row has moved a file.
C8_Witness ==
    /\ Len(log) >= 2
    /\ log[1].kind = "skip"
    /\ log[2].kind = "moved"
    /\ log[2].moved > 0
    /\ get_amount(rows[1]).value = 0

\* C9: an amount entry that holds no integer counts as 0: get_amount returns
\* 0 and raises nothing.
C9_NonNumericIsZero ==
    \A i \in 1..Len(rows) :
        ~IsIntegerText(rows[i].amount_text)
            => get_amount(rows[i]) = [exc |-> "none", value |-> 0]

\* C10: for every 'moved/amount' line of a run, the files moved plus the
\* moves that failed for that row are exactly amount (stated for a
\* destination that is no source folder, where it fails as well).
C10_AmountAttempted ==
    \A k \in 1..Len(log) :
        (DestApart /\ log[k].kind = "moved")
            => log[k].moved + Cardinality(FailedIn(log[k].path)) = log[k].amount

====
